---------------------------- MODULE Spec2Model ----------------------------
(***************************************************************************)
(* HttpEntityBehaviourProviderImpl                                         *)
(* (src/behaviour/entity/entity_behaviour_provider.rs).                    *)
(*                                                                         *)
(* Two storages, each a std::sync::RwLock around a HashMap from entity id  *)
(* to a behaviour instance, and the provider operations that caller        *)
(* threads run against them.  Every step of a thread is one action; a      *)
(* lock acquisition is a step of its own, and the statement executed       *)
(* under the guard (with the drop of the guard at its end) is the next.    *)
(***************************************************************************)
EXTENDS Naturals, FiniteSets

\* Caller threads and entity identifiers of the model.
NumThreads == 2
NumIds == 2

Threads == 1..NumThreads
Ids == 1..NumIds

\* The behaviour kind identifiers (imported at lines 8 and 9).
HTTP == "HTTP"
JSONRPC == "JSONRPC"
Kinds == {HTTP, JSONRPC}

\* Type tags an entity instance may carry: the two kinds and one other tag.
TypeNames == {HTTP, JSONRPC, "other"}

\* Arc<ReactiveEntityInstance>: the two fields the provider reads.
Entities == [id : Ids, type_name : TypeNames]

\* Behaviour instances (Arc<Http>, Arc<JsonRpc>).  An instance bears the name
\* of the thread whose call constructed it for as long as that call runs, and
\* the name Old once the call has returned.  Instances are compared only as
\* values of one key of one map, and a map keeps one value per key.
Old == 0
Instances == {Old} \cup Threads

VARIABLES
    http,             \* self.http    : [lock, map]
    jsonrpc,          \* self.jsonrpc : [lock, map]
    pc,               \* position of every thread
    op,               \* the provider operation a thread is running
    entity_instance,  \* its argument (remove_by_id: the id alone)
    kind,             \* the kind whose storage the thread is working on
    result,           \* the value of Http::new / JsonRpc::new
    attempts,         \* history: factory calls made by the running call
    mutated,          \* history: kinds the running call inserted into / removed from
    alone,            \* history: no other call on the same id overlapped so far
    pre,              \* history: the id's entries when the call started
    chained,          \* history: the call directly follows a clean attach
    clean,            \* history: per id, tag of a clean attach just returned
    lastInsert,       \* history: per kind and id, instance of the latest insert
    live              \* history: per kind and id, a construction succeeded
                      \*          and nothing was removed since

vars == <<http, jsonrpc, pc, op, entity_instance, kind, result, attempts,
          mutated, alone, pre, chained, clean, lastInsert, live>>

hist == <<attempts, mutated, alone, pre, chained, clean, lastInsert, live>>

-----------------------------------------------------------------------------
\* std::sync::RwLock and std::collections::HashMap, as far as the code uses them.

\* RwLock::new(HashMap::new())
NewStorage ==
    [lock |-> [writer |-> {}, readers |-> {}, poisoned |-> FALSE], map |-> {}]

\* RwLock::write() returns once nobody holds the lock: the guard, or an
\* error (with the guard in it) when the lock is poisoned.
CanWrite(lock) == lock.writer = {} /\ lock.readers = {}

\* A thread that panics drops the guards it holds while it unwinds, and a
\* write guard dropped during a panic poisons its lock.
unwind(lock, t) ==
    IF t \in lock.writer
    THEN [lock EXCEPT !.writer = @ \ {t}, !.poisoned = TRUE]
    ELSE [lock EXCEPT !.readers = @ \ {t}]

write(lock, t) == [lock EXCEPT !.writer = {t}]

\* A guard that is leaked: the lock stays held.
drop_leaks(lock, t) == lock

\* RwLockWriteGuard::drop
drop(lock, t) == [lock EXCEPT !.writer = @ \ {t}]

\* A map that keeps the value a key already has.
insert_keeps_old(map, id, inst) ==
    IF \E e \in map : e[1] = id THEN map ELSE map \cup {<<id, inst>>}

\* HashMap::insert: the previous value of the key is replaced.
insert(map, id, inst) == {e \in map : e[1] # id} \cup {<<id, inst>>}

\* A removal that removes nothing.
remove_nothing(map, id) == map

\* A removal that empties the map.
remove_clears(map, id) == {}

\* HashMap::remove
remove(map, id) == {e \in map : e[1] # id}

\* HashMap::contains_key
contains_key(map, id) == \E e \in map : e[1] = id

\* The instances stored under id.
Get(map, id) == {e[2] : e \in {x \in map : x[1] = id}}

Storage(k) == IF k = HTTP THEN http ELSE jsonrpc

SetStorage(k, s) ==
    IF k = HTTP THEN http' = s /\ UNCHANGED jsonrpc
                ELSE jsonrpc' = s /\ UNCHANGED http


-----------------------------------------------------------------------------
\* Values of the thread-local variables outside a call.
NoEntity == [id |-> 0, type_name |-> "none"]

\* Result<Http, _>: not yet computed, a failure, or an instance.
NoResult == <<>>
Err == <<"Err">>
Ok(i) == <<"Ok", i>>
Results == {NoResult, Err} \cup {Ok(i) : i \in Instances}
NoSnapshot == [k \in Kinds |-> {}]

\* The threads, other than t, that are inside a call on the identifier id.
Others(t, id) == {u \in Threads \ {t} : pc[u] # "idle" /\ entity_instance[u].id = id}

\* The entries of id in both storages.
Snapshot(id) == [k \in Kinds |-> Get(Storage(k).map, id)]

\* The instance the call of thread t has constructed is known as Old from
\* the return of the call on.
Retire(map, t) == {<<e[1], IF e[2] = t THEN Old ELSE e[2]>> : e \in map}

TypeOK ==
    /\ http \in [lock : [writer : SUBSET Threads, readers : SUBSET Threads,
                         poisoned : BOOLEAN],
                 map : SUBSET (Ids \X Instances)]
    /\ jsonrpc \in [lock : [writer : SUBSET Threads, readers : SUBSET Threads,
                            poisoned : BOOLEAN],
                    map : SUBSET (Ids \X Instances)]
    /\ pc \in [Threads -> {"idle", "new", "insert_lock", "insert", "remove_lock",
                           "remove", "check_lock", "check", "take_lock", "take",
                           "ret", "panic"}]
    /\ op \in [Threads -> {"none", "add_behaviours", "remove_behaviours",
                           "remove_behaviours_by_id"}]
    /\ entity_instance \in [Threads -> Entities \cup {NoEntity}
                                        \cup [id : Ids, type_name : {"none"}]]
    /\ kind \in [Threads -> Kinds \cup {"none"}]
    /\ result \in [Threads -> Results]
    /\ attempts \in [Threads -> 0..2]
    /\ mutated \in [Threads -> SUBSET Kinds]
    /\ alone \in [Threads -> BOOLEAN]
    /\ pre \in [Threads -> [Kinds -> SUBSET Instances]]
    /\ chained \in [Threads -> BOOLEAN]
    /\ clean \in [Ids -> Kinds \cup {"none"}]
    /\ lastInsert \in [Kinds -> [Ids -> SUBSET Instances]]
    /\ live \in [Kinds -> [Ids -> BOOLEAN]]

\* new(): both storages empty, no call running.
Init ==
    /\ http = NewStorage
    /\ jsonrpc = NewStorage
    /\ pc = [t \in Threads |-> "idle"]
    /\ op = [t \in Threads |-> "none"]
    /\ entity_instance = [t \in Threads |-> NoEntity]
    /\ kind = [t \in Threads |-> "none"]
    /\ result = [t \in Threads |-> NoResult]
    /\ attempts = [t \in Threads |-> 0]
    /\ mutated = [t \in Threads |-> {}]
    /\ alone = [t \in Threads |-> FALSE]
    /\ pre = [t \in Threads |-> NoSnapshot]
    /\ chained = [t \in Threads |-> FALSE]
    /\ clean = [i \in Ids |-> "none"]
    /\ lastInsert = [k \in Kinds |-> [i \in Ids |-> {}]]
    /\ live = [k \in Kinds |-> [i \in Ids |-> FALSE]]

-----------------------------------------------------------------------------
\* The history a call leaves when it starts: a call that overlaps another on
\* the same identifier is not alone, and neither is the one it overlaps.
Enter(t, name, e) ==
    /\ op' = [op EXCEPT ![t] = name]
    /\ entity_instance' = [entity_instance EXCEPT ![t] = e]
    /\ result' = [result EXCEPT ![t] = NoResult]
    /\ attempts' = [attempts EXCEPT ![t] = 0]
    /\ mutated' = [mutated EXCEPT ![t] = {}]
    /\ alone' = [u \in Threads |->
                    IF u = t THEN Others(t, e.id) = {}
                    ELSE alone[u] /\ u \notin Others(t, e.id)]
    /\ pre' = [u \in Threads |->
                    IF u = t
                    THEN IF Others(t, e.id) = {} THEN Snapshot(e.id) ELSE NoSnapshot
                    ELSE IF u \in Others(t, e.id) THEN NoSnapshot ELSE pre[u]]
    /\ chained' = [u \in Threads |->
                    IF u = t
                    THEN /\ Others(t, e.id) = {}
                         /\ name = "remove_behaviours"
                         /\ clean[e.id] = e.type_name
                    ELSE chained[u] /\ u \notin Others(t, e.id)]
    /\ clean' = [clean EXCEPT ![e.id] = "none"]
    /\ UNCHANGED <<http, jsonrpc, lastInsert, live>>

\* A match whose JSONRPC arm calls the HTTP function.
DispatchHttpOnly(type_name) ==
    IF type_name \in {HTTP, JSONRPC} THEN {HTTP} ELSE {}

\* A match whose last arm is the HTTP function instead of the empty arm.
DispatchDefaultHttp(type_name) ==
    IF type_name = JSONRPC THEN {JSONRPC} ELSE {HTTP}

\* The arm a type tag selects in the match of add_behaviours and
\* remove_behaviours: the kind's function, or the empty arm.
Dispatch(type_name) ==
    IF type_name = HTTP THEN {HTTP}
    ELSE IF type_name = JSONRPC THEN {JSONRPC}
    ELSE {}

\* add_behaviours(entity_instance)
add_behaviours(t, e) ==
        /\ pc[t] = "idle"
        /\ Enter(t, "add_behaviours", e)
        /\ IF Dispatch(e.type_name) = {}
           THEN /\ pc' = [pc EXCEPT ![t] = "ret"]
                /\ UNCHANGED kind
           ELSE /\ pc' = [pc EXCEPT ![t] = "new"]
                /\ kind' = [kind EXCEPT ![t] = CHOOSE k \in Dispatch(e.type_name) : TRUE]

\* remove_behaviours(entity_instance)
remove_behaviours(t, e) ==
        /\ pc[t] = "idle"
        /\ Enter(t, "remove_behaviours", e)
        /\ IF Dispatch(e.type_name) = {}
           THEN /\ pc' = [pc EXCEPT ![t] = "ret"]
                /\ UNCHANGED kind
           ELSE /\ pc' = [pc EXCEPT ![t] = "remove_lock"]
                /\ kind' = [kind EXCEPT ![t] = CHOOSE k \in Dispatch(e.type_name) : TRUE]

\* A remove_by_id whose first block is the JSONRPC block.
FirstKindJsonRpc == JSONRPC

\* The storage of the first `if` of remove_by_id.
FirstKind == HTTP

\* remove_behaviours_by_id(id): remove_by_id(id), the HTTP storage first.
remove_behaviours_by_id(t, id) ==
        /\ pc[t] = "idle"
        /\ Enter(t, "remove_behaviours_by_id", [id |-> id, type_name |-> "none"])
        /\ pc' = [pc EXCEPT ![t] = "check_lock"]
        /\ kind' = [kind EXCEPT ![t] = FirstKind]

-----------------------------------------------------------------------------
\* The steps of the provider functions.  k is the kind of the function:
\* create_http is Create(t, HTTP), create_json_rpc is Create(t, JSONRPC).

Id(t) == entity_instance[t].id

\* A test that takes every result for a success.
is_ok_always(r) == TRUE

\* Result::is_ok
is_ok(r) == r # Err

\* Result::unwrap of a success
unwrap(r) == r[2]

\* Http::new(entity_instance) / JsonRpc::new(entity_instance), the test of
\* is_ok() and the unwrap() inside the branch.  The factory succeeds with a
\* new instance or fails; unwrap() of a failure panics.
New(t, k) ==
    /\ pc[t] = "new" /\ kind[t] = k
    /\ \E r \in {Ok(t), Err} :
        /\ result' = [result EXCEPT ![t] = r]
        /\ live' = [live EXCEPT ![k][Id(t)] = IF r = Err THEN @ ELSE TRUE]
        /\ pc' = [pc EXCEPT ![t] =
                    IF is_ok(r)
                    THEN IF r = Err THEN "panic" ELSE "insert_lock"
                    ELSE "ret"]
        /\ IF is_ok(r) /\ r = Err
           THEN /\ http' = [http EXCEPT !.lock = unwind(@, t)]
                /\ jsonrpc' = [jsonrpc EXCEPT !.lock = unwind(@, t)]
           ELSE UNCHANGED <<http, jsonrpc>>
    /\ attempts' = [attempts EXCEPT ![t] = @ + 1]
    /\ UNCHANGED <<op, entity_instance, kind, mutated, alone, pre, chained,
                   clean, lastInsert>>

\* self.<k>.0.write().unwrap(): blocks until the lock is free; unwrap() of
\* the error of a poisoned lock panics, and the guard inside the error is
\* dropped.
Lock(t, k, from, to) ==
    /\ pc[t] = from /\ kind[t] = k
    /\ CanWrite(Storage(k).lock)
    /\ IF Storage(k).lock.poisoned
       THEN /\ pc' = [pc EXCEPT ![t] = "panic"]
            /\ SetStorage(k, [Storage(k) EXCEPT
                                !.lock = unwind(write(@, t), t)])
       ELSE /\ pc' = [pc EXCEPT ![t] = to]
            /\ SetStorage(k, [Storage(k) EXCEPT !.lock = write(@, t)])
    /\ UNCHANGED <<op, entity_instance, kind, result>>
    /\ UNCHANGED hist

\* .insert(id, http); the guard is dropped at the end of the statement.
Insert(t, k) ==
    /\ pc[t] = "insert" /\ kind[t] = k
    /\ SetStorage(k, [lock |-> drop(Storage(k).lock, t),
                      map |-> insert(Storage(k).map, Id(t), unwrap(result[t]))])
    /\ lastInsert' = [lastInsert EXCEPT ![k][Id(t)] = {unwrap(result[t])}]
    /\ mutated' = [mutated EXCEPT ![t] = @ \cup {k}]
    /\ pc' = [pc EXCEPT ![t] = "ret"]
    /\ UNCHANGED <<op, entity_instance, kind, result, attempts, alone, pre,
                   chained, clean, live>>

Create(t, k) ==
    \/ New(t, k)
    \/ Lock(t, k, "insert_lock", "insert")
    \/ Insert(t, k)

create_http(t) == Create(t, HTTP)

create_json_rpc(t) == Create(t, JSONRPC)

\* .remove(&id) under the guard taken at `from`; the guard is dropped at the
\* end of the statement.
Removed(t, k, from) ==
    /\ pc[t] = from /\ kind[t] = k
    /\ SetStorage(k, [lock |-> drop(Storage(k).lock, t),
                      map |-> remove(Storage(k).map, Id(t))])
    /\ lastInsert' = [lastInsert EXCEPT ![k][Id(t)] = {}]
    /\ live' = [live EXCEPT ![k][Id(t)] =
                    IF contains_key(Storage(k).map, Id(t)) THEN FALSE ELSE @]
    /\ mutated' = [mutated EXCEPT ![t] = @ \cup {k}]
    /\ UNCHANGED <<op, entity_instance, result, attempts, alone, pre, chained,
                   clean>>

\* self.<k>.0.write().unwrap().remove(&entity_instance.id)
Remove(t, k) ==
    \/ Lock(t, k, "remove_lock", "remove") /\ UNCHANGED kind
    \/ /\ Removed(t, k, "remove")
       /\ pc' = [pc EXCEPT ![t] = "ret"]
       /\ UNCHANGED kind

remove_http(t) == Remove(t, HTTP)

remove_json_rpc(t) == Remove(t, JSONRPC)

\* A guard that lives on into the block, as the scrutinee of an `if let` does.
keep_condition_guard(lock, t) == lock

\* The guard taken in the condition of the `if` is a temporary of the
\* condition: it is dropped before the block is entered.
drop_condition_guard(lock, t) == drop(lock, t)

\* A remove_by_id that returns after the HTTP storage.
ContinueNowhere(t, k) ==
    /\ pc' = [pc EXCEPT ![t] = "ret"]
    /\ UNCHANGED kind

\* remove_by_id goes on with the JSONRPC storage after the HTTP storage.
Continue(t, k) ==
    IF k = HTTP
    THEN /\ pc' = [pc EXCEPT ![t] = "check_lock"]
         /\ kind' = [kind EXCEPT ![t] = JSONRPC]
    ELSE /\ pc' = [pc EXCEPT ![t] = "ret"]
         /\ UNCHANGED kind

\* if self.<k>.0.write().unwrap().contains_key(&id)
Check(t, k) ==
    /\ pc[t] = "check" /\ kind[t] = k
    /\ SetStorage(k, [Storage(k) EXCEPT !.lock = drop_condition_guard(@, t)])
    /\ IF contains_key(Storage(k).map, Id(t))
       THEN /\ pc' = [pc EXCEPT ![t] = "take_lock"]
            /\ UNCHANGED kind
       ELSE Continue(t, k)
    /\ UNCHANGED <<op, entity_instance, result>>
    /\ UNCHANGED hist

\* self.<k>.0.write().unwrap().remove(&id), in the block of the `if`
Take(t, k) ==
    /\ Removed(t, k, "take")
    /\ Continue(t, k)

RemoveById(t, k) ==
    \/ Lock(t, k, "check_lock", "check") /\ UNCHANGED kind
    \/ Check(t, k)
    \/ Lock(t, k, "take_lock", "take") /\ UNCHANGED kind
    \/ Take(t, k)

remove_by_id(t) == RemoveById(t, HTTP) \/ RemoveById(t, JSONRPC)

\* The call returns to its caller.
Return(t) ==
    /\ pc[t] = "ret"
    /\ pc' = [pc EXCEPT ![t] = "idle"]
    /\ clean' = [clean EXCEPT ![Id(t)] =
                    IF /\ op[t] = "add_behaviours"
                       /\ alone[t]
                       /\ result[t] \notin {NoResult, Err}
                       /\ pre[t] = NoSnapshot
                    THEN entity_instance[t].type_name
                    ELSE @]
    /\ op' = [op EXCEPT ![t] = "none"]
    /\ entity_instance' = [entity_instance EXCEPT ![t] = NoEntity]
    /\ kind' = [kind EXCEPT ![t] = "none"]
    /\ result' = [result EXCEPT ![t] = NoResult]
    /\ attempts' = [attempts EXCEPT ![t] = 0]
    /\ mutated' = [mutated EXCEPT ![t] = {}]
    /\ alone' = [alone EXCEPT ![t] = FALSE]
    /\ pre' = [pre EXCEPT ![t] = NoSnapshot]
    /\ chained' = [chained EXCEPT ![t] = FALSE]
    /\ http' = [http EXCEPT !.map = Retire(@, t)]
    /\ jsonrpc' = [jsonrpc EXCEPT !.map = Retire(@, t)]
    /\ lastInsert' = [k \in Kinds |-> [i \in Ids |->
                        {IF j = t THEN Old ELSE j : j \in lastInsert[k][i]}]]
    /\ UNCHANGED live

\* The steps of a call that is under way.
Step(t) ==
    \/ create_http(t)
    \/ create_json_rpc(t)
    \/ remove_http(t)
    \/ remove_json_rpc(t)
    \/ remove_by_id(t)
    \/ Return(t)

\* The callers: any thread that is not inside a call starts any operation
\* on an entity instance, or an identifier, of the set I of identifiers.
Calls(I) ==
    \E t \in Threads :
        \/ \E e \in Entities : e.id \in I /\ add_behaviours(t, e)
        \/ \E e \in Entities : e.id \in I /\ remove_behaviours(t, e)
        \/ \E id \in I : remove_behaviours_by_id(t, id)

Next == Calls(Ids) \/ \E t \in Threads : Step(t)

Spec == Init /\ [][Next]_vars

\* All callers work on one and the same identifier, and the scheduling is
\* fair: a thread that can take a step of its call again and again, as one
\* that waits for a lock other threads take and release, eventually takes it.
SameId == CHOOSE i \in Ids : \A j \in Ids : i <= j

NextSameId == Calls({SameId}) \/ \E t \in Threads : Step(t)

FairSpec ==
    /\ Init
    /\ [][NextSameId]_vars
    /\ \A t \in Threads : SF_vars(Step(t))

\* Every identifier has one type tag for good: whoever passes an entity
\* instance of the identifier passes it with that type_name.  The tags go
\* round the identifiers: HTTP, JSONRPC, other, HTTP, ...
TagOf(id) ==
    IF id % 3 = 1 THEN HTTP
    ELSE IF id % 3 = 2 THEN JSONRPC
    ELSE "other"

TypedCalls ==
    \E t \in Threads :
        \/ \E e \in Entities : e.type_name = TagOf(e.id) /\ add_behaviours(t, e)
        \/ \E e \in Entities : e.type_name = TagOf(e.id) /\ remove_behaviours(t, e)
        \/ \E id \in Ids : remove_behaviours_by_id(t, id)

NextTyped == TypedCalls \/ \E t \in Threads : Step(t)

TypedSpec == Init /\ [][NextTyped]_vars

-----------------------------------------------------------------------------
\* What the claims speak of.

\* Thread t has finished the body of operation `name` and is about to return.
Finished(t, name) == pc[t] = "ret" /\ op[t] = name

Tag(t) == entity_instance[t].type_name

\* The kind other than k.
OtherKind(k) == IF k = HTTP THEN JSONRPC ELSE HTTP

\* Thread t holds the lock of k's storage.
Holds(t, k) == t \in Storage(k).lock.writer \cup Storage(k).lock.readers

\* Thread t is at a write() on the lock of k's storage.
Waits(t, k) ==
    /\ pc[t] \in {"insert_lock", "remove_lock", "check_lock", "take_lock"}
    /\ kind[t] = k

\* No call on the identifier id is in progress.
Quiescent(id) == \A t \in Threads : pc[t] = "idle" \/ Id(t) # id

\* C1: an add_behaviours of an entity of kind K whose factory succeeded, run
\* with no other call on the identifier, ends with exactly one entry for the
\* identifier in K's storage, the instance it constructed; it has written to
\* K's storage alone, and the other storage holds under the identifier what
\* it held when the call started.
C1_AttachStoresOneEntry ==
    \A t \in Threads :
        (/\ Finished(t, "add_behaviours")
         /\ Tag(t) \in Kinds
         /\ result[t] \notin {NoResult, Err}
         /\ alone[t])
        => /\ Get(Storage(Tag(t)).map, Id(t)) = {unwrap(result[t])}
           /\ Cardinality({e \in Storage(Tag(t)).map : e[1] = Id(t)}) = 1
           /\ mutated[t] = {Tag(t)}
           /\ Get(Storage(OtherKind(Tag(t))).map, Id(t)) = pre[t][OtherKind(Tag(t))]

\* C1, its case: such a call has finished, and the other kind's storage holds
\* an entry for the same identifier.
C1_Witness ==
    \E t \in Threads :
        /\ Finished(t, "add_behaviours")
        /\ Tag(t) \in Kinds
        /\ result[t] \notin {NoResult, Err}
        /\ alone[t]
        /\ pre[t][OtherKind(Tag(t))] # {}

\* C2: when the factory fails for an entity of a known kind, add_behaviours
\* goes straight to its return: one factory call, no panic, no write to
\* either storage, and (no other call on the identifier having run) both
\* storages hold under the identifier what they held before.
C2_FailedFactoryChangesNothing ==
    \A t \in Threads :
        (op[t] = "add_behaviours" /\ Tag(t) \in Kinds /\ result[t] = Err)
        => /\ pc[t] = "ret"
           /\ attempts[t] = 1
           /\ mutated[t] = {}
           /\ \A k \in Kinds : ~Holds(t, k)
           /\ alone[t] => Snapshot(Id(t)) = pre[t]

\* C2, its case: the factory has failed for an identifier that has an entry.
C2_Witness ==
    \E t \in Threads :
        /\ op[t] = "add_behaviours" /\ Tag(t) \in Kinds /\ result[t] = Err
        /\ alone[t]
        /\ pre[t][Tag(t)] # {}

\* C3: add_behaviours and remove_behaviours of an entity whose type tag is no
\* known kind go straight to their return: no factory call, no write to
\* either storage, no lock taken, both storages as before.
C3_UnknownTypeIsNoOp ==
    \A t \in Threads :
        (op[t] \in {"add_behaviours", "remove_behaviours"} /\ Tag(t) \notin Kinds)
        => /\ pc[t] = "ret"
           /\ attempts[t] = 0
           /\ result[t] = NoResult
           /\ mutated[t] = {}
           /\ \A k \in Kinds : ~Holds(t, k)
           /\ alone[t] => Snapshot(Id(t)) = pre[t]

\* C3, its case: both operations are under way for entities of an unknown
\* type, one of them for an identifier that has an entry.
C3_Witness ==
    \E t \in Threads, u \in Threads :
        /\ op[t] = "add_behaviours" /\ Tag(t) \notin Kinds
        /\ op[u] = "remove_behaviours" /\ Tag(u) \notin Kinds
        /\ alone[t] /\ pre[t] # NoSnapshot

\* C4: a remove_behaviours of an entity of kind K, run with no other call on
\* the identifier, ends with no entry for the identifier in K's storage (so
\* it changes nothing when there was none) and has written to no other
\* storage; and when it directly follows an add_behaviours of the same entity
\* that succeeded, started with no entry for the identifier, neither storage
\* holds an entry for the identifier afterwards.
C4_DetachRemovesEntry ==
    \A t \in Threads :
        (Finished(t, "remove_behaviours") /\ Tag(t) \in Kinds /\ alone[t])
        => /\ Get(Storage(Tag(t)).map, Id(t)) = {}
           /\ mutated[t] = {Tag(t)}
           /\ Get(Storage(OtherKind(Tag(t))).map, Id(t)) = pre[t][OtherKind(Tag(t))]
           /\ chained[t] => Snapshot(Id(t)) = NoSnapshot

\* C4, its case: a remove_behaviours that follows a successful attach has
\* finished.
C4_Witness ==
    \E t \in Threads :
        /\ Finished(t, "remove_behaviours") /\ Tag(t) \in Kinds /\ alone[t]
        /\ chained[t]
        /\ pre[t][Tag(t)] # {}

\* C4, the other case: a remove_behaviours for an identifier without an entry.
C4_WitnessAbsent ==
    \E t \in Threads :
        /\ Finished(t, "remove_behaviours") /\ Tag(t) \in Kinds /\ alone[t]
        /\ pre[t][Tag(t)] = {}

\* C5: a remove_behaviours_by_id, run with no other call on the identifier,
\* ends with no entry for the identifier in either storage, whichever held
\* one; started with no entry (as a second call is), it writes nothing.
C5_DetachByIdClearsAllKinds ==
    \A t \in Threads :
        (Finished(t, "remove_behaviours_by_id") /\ alone[t])
        => /\ Snapshot(Id(t)) = NoSnapshot
           /\ mutated[t] = {k \in Kinds : pre[t][k] # {}}

\* C5, its case: the call has finished and both storages held an entry.
C5_Witness ==
    \E t \in Threads :
        /\ Finished(t, "remove_behaviours_by_id") /\ alone[t]
        /\ \A k \in Kinds : pre[t][k] # {}

\* C6: each storage holds at most one entry per identifier, and the entry
\* is the instance of the latest insert for the identifier.
C6_OneEntryLastWriteWins ==
    \A k \in Kinds, id \in Ids :
        /\ Cardinality({e \in Storage(k).map : e[1] = id}) <= 1
        /\ Get(Storage(k).map, id) = lastInsert[k][id]

\* C6, its case: two threads have constructed an instance of one kind for
\* one identifier and both have inserted theirs.
C6_Witness ==
    \E t \in Threads : \E u \in Threads \ {t} :
        /\ Finished(t, "add_behaviours") /\ Finished(u, "add_behaviours")
        /\ kind[t] = kind[u] /\ Id(t) = Id(u)
        /\ kind[t] \in mutated[t] /\ kind[u] \in mutated[u]
        /\ Get(Storage(kind[t]).map, Id(t)) = {t}

-----------------------------------------------------------------------------
\* C7: under fair scheduling every call that was started returns, whatever
\* the other threads do on the same identifier; no thread waits forever for a
\* lock, remove_by_id with its two acquisitions of one lock included.
C7_EveryCallReturns ==
    \A t \in Threads : (pc[t] # "idle") ~> (pc[t] = "idle")

\* C7, its case: a thread inside remove_by_id waits for the lock it has held
\* for the existence check, while another thread holds that lock.
C7_Witness ==
    \E t \in Threads : \E u \in Threads \ {t} :
        /\ pc[t] = "take_lock"
        /\ Id(u) = Id(t)
        /\ Holds(u, kind[t])

\* C8: once no call on an identifier is in progress, a storage holds an
\* entry for it exactly if a construction of that kind for it has succeeded
\* and no entry of it has been removed from that storage since.
C8_EntryIffConstructedAndNotRemoved ==
    \A k \in Kinds, id \in Ids :
        Quiescent(id) => (contains_key(Storage(k).map, id) <=> live[k][id])

\* C9: a thread inside the existence check of remove_by_id holds the lock
\* of the storage shared, not exclusively.
C9_ExistenceCheckIsShared ==
    \A t \in Threads :
        pc[t] = "check"
        => /\ t \in Storage(kind[t]).lock.readers
           /\ t \notin Storage(kind[t]).lock.writer

\* C10: no thread holds the locks of both storages, no thread waits for one
\* lock while it holds the other, and whoever holds a lock is inside a
\* statement on that storage, after which the lock is free again.
C10_LocksNeverNested ==
    \A t \in Threads :
        /\ ~(Holds(t, HTTP) /\ Holds(t, JSONRPC))
        /\ \A k \in Kinds : Waits(t, k) => ~Holds(t, OtherKind(k))
        /\ \A k \in Kinds :
            Holds(t, k) => kind[t] = k /\ pc[t] \in {"insert", "remove", "check", "take"}

\* C10, its case: the two locks are held at the same time, by two threads,
\* one of them in the second half of remove_by_id.
C10_Witness ==
    \E t \in Threads : \E u \in Threads \ {t} :
        /\ op[t] = "remove_behaviours_by_id"
        /\ HTTP \in mutated[t]
        /\ Holds(t, JSONRPC)
        /\ Holds(u, HTTP)


\* C11: remove_by_id works on the storages in turn, HTTP first.  While it is
\* in its HTTP block it has removed nothing; once it has removed from the
\* JSONRPC storage it has left the HTTP block for good, and (no other call on
\* the identifier having run) the HTTP storage holds no entry for the
\* identifier from the moment the call enters its JSONRPC block.  The state
\* with the HTTP entry gone and the JSONRPC entry still there is the witness.
C11_HttpBeforeJsonRpc ==
    \A t \in Threads :
        op[t] = "remove_behaviours_by_id"
        => /\ kind[t] = HTTP => mutated[t] = {}
           /\ JSONRPC \in mutated[t] => kind[t] = JSONRPC /\ pc[t] = "ret"
           /\ (alone[t] /\ kind[t] = JSONRPC)
                => /\ Get(http.map, Id(t)) = {}
                   /\ mutated[t] \cap {HTTP} = {k \in {HTTP} : pre[t][k] # {}}

\* C11, its case: both storages held an entry for the identifier, the call
\* is still in progress, holds no lock, has removed the HTTP entry and not
\* yet the JSONRPC entry, and another thread is free to look.
C11_Witness ==
    \E t \in Threads :
        /\ op[t] = "remove_behaviours_by_id"
        /\ pc[t] = "check_lock"
        /\ alone[t]
        /\ \A k \in Kinds : pre[t][k] # {}
        /\ Get(http.map, Id(t)) = {}
        /\ Get(jsonrpc.map, Id(t)) # {}
        /\ \A k \in Kinds : CanWrite(Storage(k).lock)
        /\ \E u \in Threads \ {t} : pc[u] = "idle"


\* The step is the insert of an add_behaviours of thread t into k's storage
\* for the identifier id, of an entity of type k whose construction succeeded.
AttachInserts(t, k, id) ==
    /\ pc[t] = "insert" /\ pc'[t] = "ret"
    /\ op[t] = "add_behaviours"
    /\ Tag(t) = k /\ Id(t) = id
    /\ result[t] \notin {NoResult, Err}

\* The step is the removal of a remove_behaviours of an entity of type k, or
\* of a remove_behaviours_by_id in its block for k, for the identifier id.
DetachRemoves(t, k, id) ==
    /\ Id(t) = id
    /\ \/ op[t] = "remove_behaviours" /\ Tag(t) = k
          /\ pc[t] = "remove" /\ pc'[t] = "ret"
       \/ op[t] = "remove_behaviours_by_id" /\ kind[t] = k
          /\ pc[t] = "take" /\ pc'[t] # "take"

\* C12: when every identifier has one type tag, k's storage holds entries
\* only of identifiers whose tag is k; an entry comes into being only by the
\* insert of an attach of an entity of type k whose construction succeeded,
\* goes only by a detach or a detach-by-id of its identifier, and changes
\* only by such an attach (at the return of the call that constructed it the
\* instance is the same, under its other name).
C12_EntriesFollowTypeTag ==
    [][\A k \in Kinds, id \in Ids :
        /\ contains_key(Storage(k).map, id)' => TagOf(id) = k
        /\ (Get(Storage(k).map, id) = {} /\ Get(Storage(k).map, id)' # {})
            => \E t \in Threads :
                /\ AttachInserts(t, k, id)
                /\ Get(Storage(k).map, id)' = {unwrap(result[t])}
        /\ (Get(Storage(k).map, id) # {} /\ Get(Storage(k).map, id)' = {})
            => \E t \in Threads : DetachRemoves(t, k, id)
        /\ (/\ Get(Storage(k).map, id) # {}
            /\ Get(Storage(k).map, id)' # {}
            /\ Get(Storage(k).map, id)' # Get(Storage(k).map, id))
            => \E t \in Threads :
                \/ AttachInserts(t, k, id)
                \/ /\ pc[t] = "ret" /\ pc'[t] = "idle"
                   /\ Get(Storage(k).map, id) = {t}
                   /\ Get(Storage(k).map, id)' = {Old}
      ]_vars

\* C12, its case: each storage holds an entry, an attach is about to replace
\* one of them, and a detach-by-id has removed an entry of another identifier.
C12_Witness ==
    /\ \A k \in Kinds : Storage(k).map # {}
    /\ \E t \in Threads :
        /\ pc[t] = "insert"
        /\ contains_key(Storage(kind[t]).map, Id(t))
    /\ \E u \in Threads :
        /\ op[u] = "remove_behaviours_by_id"
        /\ mutated[u] # {}


\* C13: no operation panics.  No thread is ever in a panic, no lock is ever
\* poisoned (so every write().unwrap() yields its guard), and a thread that
\* is past the unwrap() of the factory's result holds a success.
C13_NoPanic ==
    /\ \A t \in Threads :
        /\ pc[t] # "panic"
        /\ pc[t] \in {"insert_lock", "insert"} => result[t] \notin {NoResult, Err}
        /\ result[t] = Err => pc[t] = "ret"
    /\ \A k \in Kinds : ~Storage(k).lock.poisoned

\* C13, its case: a factory has failed in one thread while another thread,
\* inside remove_by_id for the same kind and identifier, holds the lock it
\* has acquired for the second time.
C13_Witness ==
    \E t \in Threads : \E u \in Threads \ {t} :
        /\ op[t] = "add_behaviours" /\ result[t] = Err
        /\ pc[u] = "take" /\ Holds(u, kind[u])
        /\ kind[u] = kind[t] /\ Id(u) = Id(t)


\* The step thread t takes inside remove_by_id, seen as part of one atomic
\* remove(id) per kind: the step that is the kind's instant leaves k's map
\* as a remove(id) of that instant leaves it (no entry for the identifier,
\* every other entry as it was) and ends the call's work on k; every other
\* step leaves the map as it is and stays with k.
LinearStep(t) ==
    LET k == kind[t]
        id == Id(t)
        m == Storage(k).map
        after == IF kind[t] = HTTP THEN http'.map ELSE jsonrpc'.map
        other == IF kind[t] = HTTP
                 THEN jsonrpc'.map = jsonrpc.map
                 ELSE http'.map = http.map
        atomic == {e \in Storage(k).map : e[1] # Id(t)}
        movedOn == IF k = HTTP
                   THEN pc'[t] = "check_lock" /\ kind'[t] = JSONRPC
                   ELSE pc'[t] = "ret"
    IN  /\ other
        /\ CASE pc[t] = "check" /\ ~contains_key(m, id) ->
                    after = atomic /\ movedOn
             [] pc[t] = "check" /\ contains_key(m, id) ->
                    after = m /\ pc'[t] = "take_lock" /\ kind'[t] = k
             [] pc[t] = "take" ->
                    after = atomic /\ movedOn
             [] pc[t] = "check_lock" ->
                    after = m /\ pc'[t] = "check" /\ kind'[t] = k
             [] pc[t] = "take_lock" ->
                    after = m /\ pc'[t] = "take" /\ kind'[t] = k
             [] OTHER ->
                    after = m /\ pc[t] = "ret" /\ pc'[t] = "idle"

\* C14: every remove_by_id starts with the HTTP storage, and each of its
\* steps is a step of one atomic remove(id) per kind, HTTP first: the
\* instant is the existence check when the check finds no entry, and the
\* removal otherwise, whatever other threads insert or remove in between.
C14_RemoveByIdLinearizable ==
    [][\A t \in Threads :
        /\ (pc[t] = "idle" /\ op'[t] = "remove_behaviours_by_id")
            => /\ pc'[t] = "check_lock" /\ kind'[t] = HTTP
               /\ http'.map = http.map /\ jsonrpc'.map = jsonrpc.map
        /\ (op[t] = "remove_behaviours_by_id" /\ pc'[t] # pc[t])
            => LinearStep(t)
      ]_vars

\* C14, its case: between the check and the removal of a remove_by_id
\* another thread has inserted a new instance for the identifier, which the
\* removal is about to remove.
C14_Witness ==
    \E t \in Threads : \E u \in Threads \ {t} :
        /\ op[t] = "remove_behaviours_by_id"
        /\ pc[t] = "take"
        /\ Finished(u, "add_behaviours")
        /\ Get(Storage(kind[t]).map, Id(t)) = {u}

\* C14, the other case: the entry the check saw is gone before the removal.
C14_WitnessGone ==
    \E t \in Threads :
        /\ op[t] = "remove_behaviours_by_id"
        /\ pc[t] = "take"
        /\ ~contains_key(Storage(kind[t]).map, Id(t))

\* C15: a thread that is about to invoke the factory holds no lock; a lock
\* is held only inside a critical section of its own kind, and by an attach
\* only after its one construction has succeeded; so a thread that waits
\* for a lock waits for a thread inside a critical section, never for a
\* construction.
C15_FactoryRunsUnlocked ==
    /\ \A t \in Threads : \A k \in Kinds :
        /\ pc[t] = "new" => ~Holds(t, k)
        /\ Holds(t, k)
            => /\ pc[t] \in {"insert", "remove", "check", "take"}
               /\ kind[t] = k
               /\ pc[t] = "insert"
                    => attempts[t] = 1 /\ result[t] = Ok(t)
    /\ \A u \in Threads : \A k \in Kinds :
        (Waits(u, k) /\ ~CanWrite(Storage(k).lock))
            => \E v \in Threads \ {u} : Holds(v, k) /\ pc[v] # "new"

\* C15, its case: a construction is in progress while another thread is at
\* the write() of the same kind for the same identifier, and the lock is
\* free for it to take.
C15_Witness ==
    \E t \in Threads : \E u \in Threads \ {t} :
        /\ pc[t] = "new"
        /\ Waits(u, kind[t])
        /\ Id(u) = Id(t)
        /\ CanWrite(Storage(kind[t]).lock)

\* C16: every step of a call on one identifier (the call itself, each
\* statement of its function, its return) leaves the entries of every other
\* identifier as they are, in both storages.
C16_OperationsAreLocal ==
    [][\A t \in Threads :
        pc'[t] # pc[t]
            => \A k \in Kinds :
                \A id \in Ids \ {IF pc[t] = "idle"
                                 THEN entity_instance'[t].id
                                 ELSE entity_instance[t].id} :
                    Get(Storage(k).map, id)' = Get(Storage(k).map, id)
      ]_vars

\* C16, its case: a call has run its removal on a storage that holds an
\* entry of another identifier.
C16_Witness ==
    \E t \in Threads : \E k \in Kinds : \E id \in Ids \ {Id(t)} :
        /\ op[t] \in {"remove_behaviours", "remove_behaviours_by_id"}
        /\ pc[t] = "ret"
        /\ k \in mutated[t]
        /\ contains_key(Storage(k).map, id)

=============================================================================
